---------------------------- MODULE Spec2Model ----------------------------
(***************************************************************************)
(* Model of the c2rust driver scripts.                                     *)
(*                                                                         *)
(*   scripts/build_ast_extractor.py  toolchain preparation: fetch, verify, *)
(*                                   unpack, integrate, configure, build   *)
(*                                   (specification SpecBuild)             *)
(*   scripts/transpile.py            provenance gate and the per-entry     *)
(*                                   extraction/import jobs                *)
(*                                   (specification SpecTranspile)         *)
(*                                                                         *)
(* External tools (curl, gpg, tar, ln, cmake, make, ninja, readelf, the    *)
(* extraction and the conversion tool) are the environment: every          *)
(* invocation may succeed or fail, chosen with \E.  The standard tools are *)
(* assumed to be installed, so get_cmd_or_die only fails for the binaries  *)
(* the scripts build themselves (bear, ast-extractor, ast-importer).       *)
(***************************************************************************)
EXTENDS Integers, Sequences, FiniteSets, TLC

\* ------------------------------------------------------------------ bounds
\* number of successive runs of build_ast_extractor.py that are explored
MaxRuns == 3

\* longest compilation database explored
MaxEntries == 2

\* largest worker count (-j) explored
MaxJobs == 2

\* longest compilation database made of copies of one entry
MaxDuplicates == 3

\* ------------------------------------------------------- program constants
\* errno.ENOENT, the exit code of "resource not found" failures
ENOENT == 2

\* LLVM_ARCHIVE_FILES (basenames): the URL list names clang-tools-extra twice
LLVM_ARCHIVE_FILES == <<"llvm", "cfe", "extra", "extra">>

\* canonical directory each unpack step creates, and the archive it reads
LLVM_ARCHIVE_DIRS == <<"llvm.src", "clang", "extra">>

\* CMAKELISTS_COMMANDS, line by line (the block starts with a line break)
CMAKELISTS_COMMANDS ==
    << "", "include_directories(tinycbor/include)",
       "link_directories(tinycbor/lib)", "add_subdirectory(ast-extractor)" >>

\* the lines `indicator in l` is true of, among the lines the model writes
indicator == {"add_subdirectory(ast-extractor)"}

\* CMakeLists.txt of clang-tools-extra as the archive ships it
PristineCMakeLists == << "add_subdirectory(clang-query)", "add_subdirectory(tool-template)" >>

\* first line of a generated build.ninja
signature == << "#", "CMAKE generated file: DO NOT EDIT!" >>

\* build.ninja as cmake -G Ninja -DCMAKE_BUILD_TYPE=<t> writes it
GeneratedNinja(t) ==
    [exists |-> TRUE,
     lines  |-> << signature, << "#", "Project:", "LLVM" >>, << "#", "Configuration:", t >> >>]

NoFile == [exists |-> FALSE, lines |-> << >>]

\* build.ninja files a build directory may hold before the first run
InitialNinjaFiles ==
    { NoFile, GeneratedNinja("Release"), GeneratedNinja("Debug"),
      [exists |-> TRUE, lines |-> << << "#", "edited" >>, << "#", "Configuration:", "Release" >> >>],
      [exists |-> TRUE, lines |-> << signature, << "rule", "CXX" >> >>],
      [exists |-> TRUE, lines |-> << >>] }

Platforms == {"ubuntu", "mac", "linux"}

\* exit codes a failing external tool reports (an exit status, a signal)
FailCodes == {1, -11}

VARIABLES
    \* ---- build_ast_extractor.py: the filesystem
    platform,        \* platform.platform(), fixed for a behaviour
    deps_dir,        \* DEPS_DIR exists
    llvm_bld,        \* LLVM_BLD exists
    files,           \* archive files present in DEPS_DIR
    src_dirs,        \* canonical unpacked directories present under LLVM_SRC
    extractor_link,  \* the ast-extractor symlink exists
    cmakelists,      \* clang-tools-extra/CMakeLists.txt: [exists, lines]
    cbor_src, cbor_prefix, cbor_ccdb,   \* tinycbor: source dir, install prefix, compile_commands.json
    bear_src, bear_prefix,              \* Bear: source dir, install prefix
    ninja_file,      \* LLVM_BLD/build.ninja: [exists, lines]
    \* ---- build_ast_extractor.py: the run
    pc,              \* position of the current run; "idle" between runs
    idx,             \* index of the download loop
    args,            \* parsed command line of the current (or last) run
    exitCode,        \* exit status of the last finished run
    runs,            \* number of runs started
    prev,            \* the run before the current one: [ok, debug]
    n,               \* what the current run did: [dl, sig, tar, patch, cmake, ninja]
    toolFailed,      \* an external tool invocation failed in the current run
    verified,        \* archive files on disk that passed check_sig
    gpg,             \* the last gpg --verify outcome: [ran, retcode, expected]
    \* ---- transpile.py
    t_pc,            \* main thread: "load", "filter", "gate", "incl", "sched", "exited"
    t_args,          \* [import_only, filter, jobs]
    cc_db,           \* the compilation database, a sequence of entries
    objs,            \* per entry, what the gate found on disk for its object
    gate,            \* outcome of ensure_code_compiled_with_clang
    submitted,       \* number of entries handed to the executor so far
    job,             \* per entry, the state of its transpile_single call
    invoked,         \* [extract, import]: entries whose tool invocation was started
    artifacts,       \* source files whose <file>.cbor exists
    import_failed,   \* entries whose conversion tool exited with a non-zero status
    t_exit,          \* exit status of the process once t_pc = "exited"
    \* ---- transpile.py: one call of try_locate_elf_object
    loc_pc,          \* "call" before the call, "returned" after it
    loc_cmd,         \* the entry passed as cmd: [arguments, command, directory, file]
    loc_disk,        \* the paths os.path.isfile is true of
    loc_ret          \* [state, outpath, value]: how the call ended

fsVars  == << platform, deps_dir, llvm_bld, files, src_dirs, extractor_link, cmakelists,
              cbor_src, cbor_prefix, cbor_ccdb, bear_src, bear_prefix, ninja_file >>
runVars == << pc, idx, args, exitCode, runs, prev, n, toolFailed, verified, gpg >>
buildVars == << fsVars, runVars >>
transVars == << t_pc, t_args, cc_db, objs, gate, submitted, job, invoked, artifacts,
               import_failed, t_exit >>
locVars == << loc_pc, loc_cmd, loc_disk, loc_ret >>
vars == << buildVars, transVars, locVars >>

ZeroCounts == [dl |-> 0, sig |-> 0, tar |-> 0, patch |-> 0, cmake |-> 0, ninja |-> 0]
NoGpg == [ran |-> FALSE, retcode |-> 0, expected |-> FALSE]
\* clean_all and debug; sanity_test is drawn where _main reads it
ArgSets == [clean_all : BOOLEAN, debug : BOOLEAN]

\* ------------------------------------------------------------ pure helpers
on_mac == platform = "mac"

on_ubuntu == platform = "ubuntu"

\* quit(ecode): the exit status the operating system reports
ExitStatus(ecode) == ecode % 256

\* the state a directory is left in by a tool that creates it in place
InPlace(ok, left) == IF ok THEN "full" ELSE IF left THEN "partial" ELSE "absent"

\* outcomes <<o1, ..., ok>> of successive tool invocations, each TRUE up to the
\* first failure; what follows a failure never runs and is fixed to TRUE
FirstFailure(outcomes) ==
    \A j \in 1..Len(outcomes) : \A k \in 1..Len(outcomes) :
        (j < k /\ ~outcomes[j]) => outcomes[k]

BuildInit ==
    /\ platform \in Platforms
    /\ deps_dir = FALSE
    /\ ninja_file \in InitialNinjaFiles
    /\ llvm_bld = ninja_file.exists
    /\ files = {}
    /\ src_dirs = {}
    /\ extractor_link = FALSE
    /\ cmakelists = NoFile
    /\ cbor_src = "absent" /\ cbor_prefix = "absent" /\ cbor_ccdb = FALSE
    /\ bear_src = "absent" /\ bear_prefix = "absent"
    /\ pc = "idle" /\ idx = 1
    /\ args = [clean_all |-> FALSE, debug |-> FALSE]
    /\ exitCode = 0 /\ runs = 0
    /\ prev = [ok |-> FALSE, debug |-> FALSE]
    /\ n = ZeroCounts
    /\ toolFailed = FALSE
    /\ verified = {}
    /\ gpg = NoGpg


\* ------------------------------------------------------------------- _main
\* _main up to the platform test: ensure_dir(LLVM_BLD), ensure_dir(DEPS_DIR)
\* (the plumbum version test is taken to pass), and _parse_args, which has no
\* effect on the filesystem and is read here.
RunStart(a) ==
    /\ pc = "idle"
    /\ runs < MaxRuns
    /\ runs' = runs + 1
    /\ args' = a
    /\ prev' = [ok |-> runs > 0 /\ exitCode = 0,
                 debug |-> runs > 0 /\ exitCode = 0 /\ args.debug]
    /\ n' = ZeroCounts
    /\ toolFailed' = FALSE
    /\ gpg' = NoGpg
    /\ llvm_bld' = TRUE
    /\ deps_dir' = TRUE
    /\ pc' = IF on_ubuntu THEN "bear" ELSE "clean"
    /\ idx' = 1
    /\ UNCHANGED << platform, files, src_dirs, extractor_link, cmakelists, cbor_src,
                    cbor_prefix, cbor_ccdb, bear_src, bear_prefix, ninja_file,
                    exitCode, verified,
                    transVars, locVars >>

\* build_a_bear with the outcome of each tool it may invoke, then _main's test
\* that BEAR_BIN exists.  left: a failing tool leaves what it wrote so far.
\* An installation that stopped partway has not copied bin/bear yet.
build_a_bear(curlOk, tarOk, cmakeOk, installOk, left) ==
    LET skip     == bear_prefix # "absent"
        needDl   == ~skip /\ "bear" \notin files
        dlFail   == needDl /\ ~curlOk
        files1   == IF needDl /\ (curlOk \/ left) THEN files \cup {"bear"} ELSE files
        needTar  == ~skip /\ ~dlFail /\ bear_src = "absent"
        tarFail  == needTar /\ ~tarOk
        src1     == IF needTar THEN InPlace(tarOk, left) ELSE bear_src
        doCmake  == ~skip /\ ~dlFail /\ ~tarFail
        cmFail   == doCmake /\ ~cmakeOk
        doInst   == doCmake /\ ~cmFail
        instFail == doInst /\ ~installOk
        prefix1  == IF doInst THEN InPlace(installOk, left) ELSE bear_prefix
        failed   == dlFail \/ tarFail \/ cmFail \/ instFail
    IN  [files |-> files1, bear_src |-> src1, bear_prefix |-> prefix1,
         dl |-> IF needDl THEN 1 ELSE 0, tar |-> IF needTar THEN 1 ELSE 0,
         toolFailed |-> failed,
         \* an uncaught ProcessExecutionError ends the run with status 1;
         \* a missing BEAR_BIN is die("bear not found", errno.ENOENT)
         exit |-> IF failed THEN 1 ELSE IF prefix1 # "full" THEN ENOENT ELSE 0]

BuildABear ==
    /\ pc = "bear"
    /\ \E curlOk, tarOk, cmakeOk, installOk, left \in BOOLEAN :
         LET r == build_a_bear(curlOk, tarOk, cmakeOk, installOk, left) IN
           /\ FirstFailure(<< curlOk, tarOk, cmakeOk, installOk >>)
           /\ left => r.toolFailed
           /\ files' = r.files
           /\ bear_src' = r.bear_src
           /\ bear_prefix' = r.bear_prefix
           /\ n' = [n EXCEPT !.dl = @ + r.dl, !.tar = @ + r.tar]
           /\ toolFailed' = (toolFailed \/ r.toolFailed)
           /\ pc' = IF r.exit = 0 THEN "clean" ELSE "idle"
           /\ exitCode' = IF r.exit = 0 THEN exitCode ELSE r.exit
    /\ UNCHANGED << platform, deps_dir, llvm_bld, src_dirs, extractor_link, cmakelists,
                    cbor_src, cbor_prefix, cbor_ccdb, ninja_file, idx, args, runs, prev,
                    verified, gpg,
                    transVars, locVars >>

\* _main: the clean_all branch, three shutil.rmtree calls
CleanAll ==
    /\ pc = "clean"
    /\ pc' = "fetch"
    /\ IF args.clean_all
       THEN /\ src_dirs' = {} /\ extractor_link' = FALSE /\ cmakelists' = NoFile
            /\ llvm_bld' = FALSE /\ ninja_file' = NoFile
            /\ deps_dir' = FALSE /\ files' = {} /\ verified' = {}
            /\ cbor_src' = "absent" /\ cbor_prefix' = "absent" /\ cbor_ccdb' = FALSE
            /\ bear_src' = "absent" /\ bear_prefix' = "absent"
       ELSE UNCHANGED << src_dirs, extractor_link, cmakelists, llvm_bld, ninja_file,
                         deps_dir, files, verified, cbor_src, cbor_prefix, cbor_ccdb,
                         bear_src, bear_prefix >>
    /\ UNCHANGED << platform, idx, args, exitCode, runs, prev, n, toolFailed, gpg,
                    transVars, locVars >>

\* --------------------------------------------------- download_llvm_sources
\* check_sig that trusts the exit code of gpg --verify alone
check_sig_ExitCodeOnly(recvOk, retcode, expected) ==
    [ran |-> recvOk,
     ok  |-> recvOk /\ ~(retcode # 0)]

\* check_sig: gpg --recv-key (a failure is an uncaught ProcessExecutionError),
\* then gpg --verify with retcode=None: fatal on a non-zero exit code, fatal
\* when the expected "Good signature from ..." text is not in its output.
check_sig(recvOk, retcode, expected) ==
    [ran |-> recvOk,
     ok  |-> recvOk /\ ~(retcode # 0) /\ ~(~expected)]

\* the loop iteration without its `else: continue`: an archive that is present
\* is downloaded and verified again
download_archive_NoSkip(i, curlOk, sigOk, recvOk, retcode, expected, left) ==
    LET afile   == LLVM_ARCHIVE_FILES[i]
        doCheck == curlOk /\ sigOk
        sig     == IF doCheck THEN check_sig(recvOk, retcode, expected)
                              ELSE [ran |-> FALSE, ok |-> FALSE]
        ok      == doCheck /\ sig.ok
    IN  [files |-> IF curlOk \/ left THEN files \cup {afile} ELSE files \ {afile},
         verified |-> IF ok THEN verified \cup {afile} ELSE verified \ {afile},
         dl  |-> 1,
         sig |-> IF curlOk THEN 1 ELSE 0,
         gpg |-> IF sig.ran THEN [ran |-> TRUE, retcode |-> retcode, expected |-> expected]
                            ELSE NoGpg,
         ok  |-> ok]

\* one iteration of the download loop, for LLVM_ARCHIVE_FILES[i]
download_archive(i, curlOk, sigOk, recvOk, retcode, expected, left) ==
    LET afile   == LLVM_ARCHIVE_FILES[i]
        present == afile \in files
        doSig   == ~present /\ curlOk
        doCheck == doSig /\ sigOk
        sig     == IF doCheck THEN check_sig(recvOk, retcode, expected)
                              ELSE [ran |-> FALSE, ok |-> FALSE]
        ok      == present \/ (doCheck /\ sig.ok)
    IN  [files |-> IF ~present /\ (curlOk \/ left) THEN files \cup {afile} ELSE files,
         verified |-> IF present THEN verified
                      ELSE IF ok THEN verified \cup {afile} ELSE verified \ {afile},
         dl  |-> IF present THEN 0 ELSE 1,
         sig |-> IF doSig THEN 1 ELSE 0,
         gpg |-> IF sig.ran THEN [ran |-> TRUE, retcode |-> retcode, expected |-> expected]
                            ELSE NoGpg,
         ok  |-> ok]

\* entering DEPS_DIR (pb.local.cwd raises when the directory is missing) and
\* one iteration of the loop over the archives
FetchArchive ==
    /\ pc = "fetch"
    /\ IF ~deps_dir
       THEN /\ pc' = "idle" /\ exitCode' = 1
            /\ UNCHANGED << files, verified, n, gpg, toolFailed, idx >>
       ELSE \E curlOk, sigOk, recvOk, expected, left \in BOOLEAN, retcode \in {0, 1, 2} :
              LET r == download_archive(idx, curlOk, sigOk, recvOk, retcode, expected, left) IN
                /\ FirstFailure(<< curlOk, sigOk, recvOk, retcode = 0 /\ expected >>)
                /\ left => ~curlOk
                /\ r.dl = 0 => (curlOk /\ sigOk /\ recvOk /\ retcode = 0 /\ expected)
                /\ files' = r.files
                /\ verified' = r.verified
                /\ n' = [n EXCEPT !.dl = @ + r.dl, !.sig = @ + r.sig]
                /\ gpg' = r.gpg
                /\ toolFailed' = (toolFailed \/ ~r.ok)
                /\ idx' = IF r.ok /\ idx < Len(LLVM_ARCHIVE_FILES) THEN idx + 1 ELSE idx
                /\ pc' = IF ~r.ok THEN "idle"
                         ELSE IF idx < Len(LLVM_ARCHIVE_FILES) THEN "fetch" ELSE "unpack"
                /\ exitCode' = IF r.ok THEN exitCode ELSE 1
    /\ UNCHANGED << platform, deps_dir, llvm_bld, src_dirs, extractor_link, cmakelists,
                    cbor_src, cbor_prefix, cbor_ccdb, bear_src, bear_prefix, ninja_file,
                    args, runs, prev,
                    transVars, locVars >>

\* the three unpack steps: tar xf into the default-named directory, then
\* os.rename to the canonical name; tarOk[k] is the outcome of the k-th tar
unpack_sources(tarOk) ==
    LET need1 == "llvm.src" \notin src_dirs
        fail1 == need1 /\ ~tarOk[1]
        d1    == IF need1 /\ tarOk[1] THEN src_dirs \cup {"llvm.src"} ELSE src_dirs
        need2 == ~fail1 /\ "clang" \notin d1
        fail2 == need2 /\ ~tarOk[2]
        d2    == IF need2 /\ tarOk[2] THEN d1 \cup {"clang"} ELSE d1
        need3 == ~fail1 /\ ~fail2 /\ "extra" \notin d2
        fail3 == need3 /\ ~tarOk[3]
        d3    == IF need3 /\ tarOk[3] THEN d2 \cup {"extra"} ELSE d2
    IN  [src_dirs |-> d3,
         cmakelists |-> IF need3 /\ tarOk[3]
                        THEN [exists |-> TRUE, lines |-> PristineCMakeLists]
                        ELSE cmakelists,
         tar |-> Cardinality({k \in {1} : need1} \cup {k \in {2} : need2} \cup {k \in {3} : need3}),
         ok  |-> ~(fail1 \/ fail2 \/ fail3)]

UnpackSources ==
    /\ pc = "unpack"
    /\ \E tarOk \in [1..3 -> BOOLEAN] :
         LET r == unpack_sources(tarOk) IN
           /\ FirstFailure(tarOk)
           /\ src_dirs' = r.src_dirs
           /\ cmakelists' = r.cmakelists
           /\ n' = [n EXCEPT !.tar = @ + r.tar]
           /\ toolFailed' = (toolFailed \/ ~r.ok)
           /\ pc' = IF r.ok THEN "integrate" ELSE "idle"
           /\ exitCode' = IF r.ok THEN exitCode ELSE 1
    /\ UNCHANGED << platform, deps_dir, llvm_bld, files, extractor_link, cbor_src,
                    cbor_prefix, cbor_ccdb, bear_src, bear_prefix, ninja_file, idx, args,
                    runs, prev, verified, gpg,
                    transVars, locVars >>

\* ------------------------------------------------- integrate_ast_extractor
\* update_cmakelists without the indicator test
update_cmakelists_Always(file) ==
    [die   |-> ~file.exists,
     added |-> file.exists,
     file  |-> IF file.exists THEN [file EXCEPT !.lines = @ \o CMAKELISTS_COMMANDS]
                              ELSE file]

\* update_cmakelists: append CMAKELISTS_COMMANDS unless a line holds the indicator
update_cmakelists(file) ==
    LET add_commands == ~(\E k \in 1..Len(file.lines) : file.lines[k] \in indicator)
    IN  [die   |-> ~file.exists,
         added |-> file.exists /\ add_commands,
         file  |-> IF file.exists /\ add_commands
                   THEN [file EXCEPT !.lines = @ \o CMAKELISTS_COMMANDS]
                   ELSE file]

IntegrateAstExtractor ==
    /\ pc = "integrate"
    /\ \E lnOk \in BOOLEAN :
         LET lnFail == ~extractor_link /\ ~lnOk
             u      == update_cmakelists(cmakelists)
         IN  /\ extractor_link' = (extractor_link \/ lnOk)
             /\ toolFailed' = (toolFailed \/ lnFail)
             /\ cmakelists' = IF lnFail THEN cmakelists ELSE u.file
             /\ n' = [n EXCEPT !.patch = @ + (IF ~lnFail /\ u.added THEN 1 ELSE 0)]
             /\ pc' = IF lnFail \/ u.die THEN "idle" ELSE "tinycbor"
             /\ exitCode' = IF lnFail THEN 1 ELSE IF u.die THEN ENOENT ELSE exitCode
    /\ UNCHANGED << platform, deps_dir, llvm_bld, files, src_dirs, cbor_src, cbor_prefix,
                    cbor_ccdb, bear_src, bear_prefix, ninja_file, idx, args, runs, prev,
                    verified, gpg,
                    transVars, locVars >>

\* -------------------------------------------------------- install_tinycbor
\* install_tinycbor with the outcome of each tool it may invoke.  makefile:
\* a partially unpacked source directory holds the Makefile or not.
install_tinycbor(curlOk, tarOk, makefile, makeOk, installOk, left) ==
    LET skip     == cbor_prefix # "absent"
        needDl   == ~skip /\ "tinycbor" \notin files
        dlFail   == needDl /\ ~curlOk
        files1   == IF needDl /\ (curlOk \/ left) THEN files \cup {"tinycbor"} ELSE files
        needTar  == ~skip /\ ~dlFail /\ cbor_src = "absent"
        tarFail  == needTar /\ ~tarOk
        src1     == IF needTar THEN InPlace(tarOk, left) ELSE cbor_src
        \* update_cbor_prefix: die(..., errno.ENOENT) when the Makefile is missing
        noMake   == ~skip /\ ~dlFail /\ ~tarFail /\ (src1 = "absent" \/ (src1 = "partial" /\ ~makefile))
        \* get_cmd_or_die(BEAR_BIN) off macOS
        noBear   == ~skip /\ ~dlFail /\ ~tarFail /\ ~noMake /\ ~on_mac /\ bear_prefix # "full"
        doMake   == ~skip /\ ~dlFail /\ ~tarFail /\ ~noMake /\ ~noBear
        makeFail == doMake /\ ~makeOk
        ccdb1    == cbor_ccdb \/ (doMake /\ makeOk /\ ~on_mac)
        doInst   == doMake /\ makeOk
        instFail == doInst /\ ~installOk
        prefix1  == IF doInst THEN InPlace(installOk, left) ELSE cbor_prefix
        failed   == dlFail \/ tarFail \/ makeFail \/ instFail
        \* path_to_cc_db: die("not found: ...") off macOS
        noCcdb   == ~failed /\ ~noMake /\ ~noBear /\ ~ccdb1 /\ ~on_mac
    IN  [files |-> files1, cbor_src |-> src1, cbor_prefix |-> prefix1, cbor_ccdb |-> ccdb1,
         dl |-> IF needDl THEN 1 ELSE 0, tar |-> IF needTar THEN 1 ELSE 0,
         toolFailed |-> failed,
         exit |-> IF failed \/ noCcdb THEN 1 ELSE IF noMake \/ noBear THEN ENOENT ELSE 0]

InstallTinycbor ==
    /\ pc = "tinycbor"
    /\ \E curlOk, tarOk, makefile, makeOk, installOk, left \in BOOLEAN :
         LET r == install_tinycbor(curlOk, tarOk, makefile, makeOk, installOk, left) IN
           /\ FirstFailure(<< curlOk, tarOk, makeOk, installOk >>)
           /\ left => r.toolFailed
           /\ files' = r.files
           /\ cbor_src' = r.cbor_src
           /\ cbor_prefix' = r.cbor_prefix
           /\ cbor_ccdb' = r.cbor_ccdb
           /\ n' = [n EXCEPT !.dl = @ + r.dl, !.tar = @ + r.tar]
           /\ toolFailed' = (toolFailed \/ r.toolFailed)
           /\ pc' = IF r.exit = 0 THEN "configure" ELSE "idle"
           /\ exitCode' = IF r.exit = 0 THEN exitCode ELSE r.exit
    /\ UNCHANGED << platform, deps_dir, llvm_bld, src_dirs, extractor_link, cmakelists,
                    bear_src, bear_prefix, ninja_file, idx, args, runs, prev, verified, gpg,
                    transVars, locVars >>

\* ------------------------------------------------ configure_and_build_llvm
\* re.match(r'^#\s*Configuration:\s*(\w+)', line) on a line given as its words
IsConfigLine(line) == Len(line) >= 3 /\ line[1] = "#" /\ line[2] = "Configuration:"

\* get_ninja_build_type taking a file it cannot read as recording no flavor
get_ninja_build_type_Lenient(file) ==
    LET lines == file.lines
        hits  == {k \in 1..Len(lines) : IsConfigLine(lines[k])}
    IN  IF hits = {} THEN [kind |-> "ok", type |-> ""]
        ELSE [kind |-> "ok",
              type |-> lines[CHOOSE k \in hits : \A j \in hits : k <= j][3]]

\* get_ninja_build_type: "crash" is the IndexError of lines[0] on an empty file
get_ninja_build_type(file) ==
    LET lines == file.lines
        hits  == {k \in 1..Len(lines) : IsConfigLine(lines[k])}
    IN  IF Len(lines) = 0 THEN [kind |-> "crash", type |-> ""]
        ELSE IF ~(lines[1] = signature) THEN [kind |-> "die", type |-> ""]
        ELSE IF hits = {} THEN [kind |-> "die", type |-> ""]
        ELSE [kind |-> "ok",
              type |-> lines[CHOOSE k \in hits : \A j \in hits : k <= j][3]]

build_type == IF args.debug THEN "Debug" ELSE "Release"

\* the decision taken from the presence of build.ninja alone: the recorded
\* flavor is read but not compared
run_cmake_IgnoresFlavor(file) ==
    IF file.exists
    THEN (IF get_ninja_build_type(file).kind = "ok" THEN "False" ELSE "fatal")
    ELSE "True"

\* the decision of configure_and_build_llvm: "True", "False", or "fatal" when
\* get_ninja_build_type ends the run
run_cmake(file) ==
    IF file.exists
    THEN LET prev_build_type == get_ninja_build_type(file) IN
           IF prev_build_type.kind = "ok"
           THEN (IF prev_build_type.type # build_type THEN "True" ELSE "False")
           ELSE "fatal"
    ELSE "True"

\* configure_and_build_llvm up to and including the cmake invocation
ConfigureLLVM ==
    /\ pc = "configure"
    /\ \E cmakeOk \in BOOLEAN, code \in FailCodes :
         LET decision == IF llvm_bld THEN run_cmake(ninja_file) ELSE "fatal"
             doCmake  == decision = "True"
             failed   == doCmake /\ ~cmakeOk
         IN  /\ n' = [n EXCEPT !.cmake = @ + (IF doCmake THEN 1 ELSE 0)]
             /\ ninja_file' = IF doCmake /\ cmakeOk THEN GeneratedNinja(build_type)
                                                    ELSE ninja_file
             /\ toolFailed' = (toolFailed \/ failed)
             /\ pc' = IF decision = "fatal" \/ failed THEN "idle" ELSE "build"
             /\ exitCode' = IF decision = "fatal" THEN 1
                            ELSE IF failed THEN ExitStatus(code) ELSE exitCode
    /\ UNCHANGED << platform, deps_dir, llvm_bld, files, src_dirs, extractor_link,
                    cmakelists, cbor_src, cbor_prefix, cbor_ccdb, bear_src, bear_prefix,
                    idx, args, runs, prev, verified, gpg,
                    transVars, locVars >>

\* invoke(ninja['ast-extractor']), then _main's decision to run the sanity test
BuildLLVM ==
    /\ pc = "build"
    /\ \E ninjaOk, sanity_test \in BOOLEAN, code \in FailCodes :
         /\ n' = [n EXCEPT !.ninja = @ + 1]
         /\ toolFailed' = (toolFailed \/ ~ninjaOk)
         /\ pc' = IF ninjaOk /\ ~on_mac /\ sanity_test THEN "test" ELSE "idle"
         /\ exitCode' = IF ninjaOk THEN (IF pc' = "idle" THEN 0 ELSE exitCode)
                                   ELSE ExitStatus(code)
    /\ UNCHANGED << fsVars, idx, args, runs, prev, verified, gpg,
                    transVars, locVars >>

\* test_ast_extractor: the extraction tool run over tinycbor's database
SanityTest ==
    /\ pc = "test"
    /\ \E ok \in BOOLEAN, code \in FailCodes :
         /\ toolFailed' = (toolFailed \/ ~ok)
         /\ exitCode' = IF ok THEN 0 ELSE ExitStatus(code)
    /\ pc' = "idle"
    /\ UNCHANGED << fsVars, idx, args, runs, prev, n, verified, gpg,
                    transVars, locVars >>

BuildNext ==
    \/ \E a \in ArgSets : RunStart(a)
    \/ BuildABear
    \/ CleanAll
    \/ FetchArchive
    \/ UnpackSources
    \/ IntegrateAstExtractor
    \/ InstallTinycbor
    \/ ConfigureLLVM
    \/ BuildLLVM
    \/ SanityTest

\* ============================================================ transpile.py
\* a key the JSON object of an entry does not have
MISSING == "<missing>"

\* source files of the project; EndsWithC is file.endswith(".c")
SourceFiles == {"a.c", "b.c", "m.h"}

EndsWithC(file) == file \in {"a.c", "b.c"}

\* values of -f/--filter; the default is the empty string
Filters == {"", "a"}

\* the characters of the file names and filters the model uses
Spelling(s) ==
    CASE s = "a.c" -> << "a", ".", "c" >>
      [] s = "b.c" -> << "b", ".", "c" >>
      [] s = "m.h" -> << "m", ".", "h" >>
      [] s = "a"   -> << "a" >>
      [] s = ".c"  -> << ".", "c" >>
      [] OTHER     -> << >>

\* Python's `sub in s` on strings
Contains(sub, s) ==
    LET a == Spelling(sub)
        b == Spelling(s)
    IN  \E k \in 0..(Len(b) - Len(a)) : \A j \in 1..Len(a) : b[k + j] = a[j]

\* entries of a compilation database: directory, file, and whether the entry
\* has "arguments" or "command"
EntryShapes ==
    {[directory |-> "d", file |-> f, cmd |-> TRUE] : f \in SourceFiles}
    \cup {[directory |-> MISSING, file |-> f, cmd |-> TRUE] : f \in {"a.c", "m.h", MISSING}}
    \cup {[directory |-> "d", file |-> MISSING, cmd |-> TRUE],
          [directory |-> "d", file |-> "a.c", cmd |-> FALSE]}

\* databases of any entries, and longer ones that repeat one well-formed entry
Databases ==
    UNION {[1..k -> EntryShapes] : k \in 0..MaxEntries}
    \cup {[i \in 1..k |-> [directory |-> "d", file |-> "a.c", cmd |-> TRUE]] : k \in 1..MaxDuplicates}

\* what the gate finds for an entry: no object file, an object whose .comment
\* section names clang, one that does not, one readelf cannot read
ObjStates == {"none", "clang", "other", "unreadable"}

Entries == 1..Len(cc_db)

TranspileInit ==
    /\ t_pc = "load"
    /\ t_args \in [import_only : BOOLEAN, filter : Filters, jobs : 1..MaxJobs]
    /\ cc_db \in Databases
    /\ objs = [i \in 1..Len(cc_db) |-> "none"]
    /\ gate = [state |-> "pending", located |-> {}, listed |-> {}]
    /\ submitted = 0
    /\ job = [i \in 1..Len(cc_db) |-> "pending"]
    /\ invoked = [extract |-> {}, import |-> {}]
    /\ artifacts \in {{}, {"a.c"}}
    /\ import_failed = {}
    /\ t_exit = 0

\* ---------------------------------------------------------- transpile_files
\* transpile_files up to the filter: get_cmd_or_die for the two binaries the
\* project builds, then json.load(args.commands_json)
LoadDatabase ==
    /\ t_pc = "load"
    /\ \E found, parsed \in BOOLEAN :
         LET code == IF ~found THEN ENOENT ELSE IF ~parsed THEN 1 ELSE 0
         IN  /\ FirstFailure(<< found, parsed >>)
             /\ t_pc' = IF code = 0 THEN "filter" ELSE "exited"
             /\ t_exit' = code
    /\ UNCHANGED << t_args, cc_db, objs, gate, submitted, job, invoked, artifacts,
                    import_failed, buildVars, locVars >>

\* if args.filter: cc_db = [c for c in cc_db if args.filter in f['file']]
\* The condition reads f, which is bound nowhere: evaluating it for the first
\* entry raises NameError.  An empty database never evaluates it.
filter_db(db, filter) ==
    IF filter = "" THEN [crash |-> FALSE, db |-> db]
    ELSE IF Len(db) > 0 THEN [crash |-> TRUE, db |-> db]
    ELSE [crash |-> FALSE, db |-> << >>]

FilterDatabase ==
    /\ t_pc = "filter"
    /\ LET r == filter_db(cc_db, t_args.filter) IN
         /\ cc_db' = r.db
         /\ objs' = [i \in 1..Len(r.db) |-> "none"]
         /\ job' = [i \in 1..Len(r.db) |-> "pending"]
         /\ t_pc' = IF r.crash THEN "exited" ELSE "gate"
         /\ t_exit' = IF r.crash THEN 1 ELSE t_exit
    /\ UNCHANGED << t_args, gate, submitted, invoked, artifacts,
                    import_failed, buildVars, locVars >>

\* the gate with its test inverted: objects that name clang are the offenders
ensure_code_compiled_with_clang_Inverted(db, o) ==
    LET all       == 1..Len(db)
        keyError  == \E i \in all : db[i].file = MISSING
        c_cc_db   == {i \in all : db[i].file # MISSING /\ EndsWithC(db[i].file)}
        malformed == \E i \in c_cc_db : ~db[i].cmd \/ db[i].directory = MISSING
        obj_files == {i \in c_cc_db : o[i] # "none"}
        unreadable == \E i \in obj_files : o[i] = "unreadable"
        non_clang_files == {i \in obj_files : o[i] = "clang"}
        state == IF keyError THEN "crashed"
                 ELSE IF c_cc_db = {} THEN "no_c_files"
                 ELSE IF malformed THEN "malformed"
                 ELSE IF unreadable THEN "crashed"
                 ELSE IF non_clang_files # {} THEN "failed"
                 ELSE "passed"
    IN  [state   |-> state,
         located |-> IF state \in {"failed", "passed"} THEN obj_files ELSE {},
         listed  |-> IF state = "failed" THEN obj_files ELSE {}]

\* the gate reporting and going on: it never ends the run over what it finds
ensure_code_compiled_with_clang_Permissive(db, o) ==
    LET all       == 1..Len(db)
        keyError  == \E i \in all : db[i].file = MISSING
        c_cc_db   == {i \in all : db[i].file # MISSING /\ EndsWithC(db[i].file)}
        malformed == \E i \in c_cc_db : ~db[i].cmd \/ db[i].directory = MISSING
        obj_files == {i \in c_cc_db : o[i] # "none"}
        unreadable == \E i \in obj_files : o[i] = "unreadable"
        state == IF keyError THEN "crashed"
                 ELSE IF malformed THEN "malformed"
                 ELSE IF unreadable THEN "crashed"
                 ELSE "passed"
    IN  [state   |-> state,
         located |-> IF state = "passed" THEN obj_files ELSE {},
         listed  |-> {}]

\* the gate counting an entry without a located object as an offender
ensure_code_compiled_with_clang_UnlocatedFatal(db, o) ==
    LET all       == 1..Len(db)
        keyError  == \E i \in all : db[i].file = MISSING
        c_cc_db   == {i \in all : db[i].file # MISSING /\ EndsWithC(db[i].file)}
        malformed == \E i \in c_cc_db : ~db[i].cmd \/ db[i].directory = MISSING
        obj_files == {i \in c_cc_db : o[i] # "none"}
        unreadable == \E i \in obj_files : o[i] = "unreadable"
        non_clang_files == {i \in c_cc_db : o[i] # "clang"}
        state == IF keyError THEN "crashed"
                 ELSE IF c_cc_db = {} THEN "no_c_files"
                 ELSE IF malformed THEN "malformed"
                 ELSE IF unreadable THEN "crashed"
                 ELSE IF non_clang_files # {} THEN "failed"
                 ELSE "passed"
    IN  [state   |-> state,
         located |-> IF state \in {"failed", "passed"} THEN obj_files ELSE {},
         listed  |-> IF state = "failed" THEN obj_files ELSE {}]

\* ensure_code_compiled_with_clang on database db, o[i] being what is on disk
\* for the object of entry i
ensure_code_compiled_with_clang(db, o) ==
    LET all       == 1..Len(db)
        keyError  == \E i \in all : db[i].file = MISSING
        c_cc_db   == {i \in all : db[i].file # MISSING /\ EndsWithC(db[i].file)}
        malformed == \E i \in c_cc_db : ~db[i].cmd \/ db[i].directory = MISSING
        obj_files == {i \in c_cc_db : o[i] # "none"}
        unreadable == \E i \in obj_files : o[i] = "unreadable"
        non_clang_files == {i \in obj_files : o[i] # "clang"}
        state == IF keyError THEN "crashed"
                 ELSE IF c_cc_db = {} THEN "no_c_files"
                 ELSE IF malformed THEN "malformed"
                 ELSE IF unreadable THEN "crashed"
                 ELSE IF non_clang_files # {} THEN "failed"
                 ELSE "passed"
    IN  [state   |-> state,
         located |-> IF state \in {"failed", "passed"} THEN obj_files ELSE {},
         \* msg += "\n".join([f for (f, c) in comment_sections])
         listed  |-> IF state = "failed" THEN obj_files ELSE {}]

EnsureCodeCompiledWithClang ==
    /\ t_pc = "gate"
    /\ \E o \in [Entries -> ObjStates] :
         LET r == ensure_code_compiled_with_clang(cc_db, o) IN
           /\ \A i \in Entries : (cc_db[i].file = MISSING \/ ~EndsWithC(cc_db[i].file)) => o[i] = "none"
           /\ objs' = o
           /\ gate' = r
           /\ t_pc' = IF r.state = "passed" THEN "incl" ELSE "exited"
           /\ t_exit' = IF r.state = "passed" THEN t_exit ELSE 1
    /\ UNCHANGED << t_args, cc_db, submitted, job, invoked, artifacts,
                    import_failed, buildVars, locVars >>

\* get_system_include_dirs: clang -E -Wp,-v -
GetSystemIncludeDirs ==
    /\ t_pc = "incl"
    /\ \E ok \in BOOLEAN :
         /\ t_pc' = IF ok THEN "sched" ELSE "exited"
         /\ t_exit' = IF ok THEN t_exit ELSE 1
    /\ UNCHANGED << t_args, cc_db, objs, gate, submitted, job, invoked, artifacts,
                    import_failed, buildVars, locVars >>

\* ------------------------------------------------------------ the scheduler
\* args.jobs == 1: transpile_single runs on the main thread
sequential == t_args.jobs = 1

Running == {i \in Entries : job[i] \in {"extracting", "importing"}}

Finished == {i \in Entries : job[i] \in {"done", "failed"}}

\* die(emsg, ecode), or an uncaught exception (ecode 1), inside
\* transpile_single for entry i.  On the main thread quit() ends the process.
\* On a worker thread of the ThreadPoolExecutor the SystemExit is stored in the
\* future of the work item, which nobody reads, and the worker goes on.
die_in_job(i, ecode) ==
    [job    |-> [job EXCEPT ![i] = "failed"],
     t_pc   |-> IF sequential THEN "exited" ELSE t_pc,
     t_exit |-> IF sequential THEN ExitStatus(ecode) ELSE t_exit]

\* executor.submit(transpile_single, cmd) for the next entry
Submit ==
    /\ t_pc = "sched"
    /\ ~sequential
    /\ submitted < Len(cc_db)
    /\ submitted' = submitted + 1
    /\ job' = [job EXCEPT ![submitted + 1] = "queued"]
    /\ UNCHANGED << t_pc, t_args, cc_db, objs, gate, invoked, artifacts, t_exit,
                    import_failed, buildVars, locVars >>

\* an executor that starts a thread for every submitted work item
MayStart_NoLimit(i) ==
    IF sequential
    THEN job[i] = "pending" /\ \A j \in 1..(i - 1) : job[j] = "done"
    ELSE /\ job[i] = "queued"
         /\ \A j \in 1..(i - 1) : job[j] # "queued"

\* a scheduler that starts any entry not yet started, whatever the others do
MayStart_AnyOrder(i) ==
    IF sequential
    THEN job[i] = "pending"
    ELSE /\ job[i] = "queued"
         /\ \A j \in 1..(i - 1) : job[j] # "queued"
         /\ Cardinality(Running) < t_args.jobs

\* entry i is the next one to run: the next of the for loop, or the head of the
\* executor's queue with a worker free
MayStart(i) ==
    IF sequential
    THEN job[i] = "pending" /\ \A j \in 1..(i - 1) : job[j] = "done"
    ELSE /\ job[i] = "queued"
         /\ \A j \in 1..(i - 1) : job[j] # "queued"
         /\ Cardinality(Running) < t_args.jobs

\* os.path.isfile answering yes for every path
isfile_AlwaysTrue(path, disk) == TRUE

\* os.path.isfile(path), disk being the set of existing files
isfile(path, disk) == path \in disk

\* transpile_single extracting whatever the command line says
import_only_Ignored(a) == FALSE

\* `if args.import_only:` in transpile_single, a being the parsed arguments
import_only(a) == a.import_only

\* transpile_single up to the first tool invocation.  In import-only mode this
\* is the conversion tool; otherwise extract_ast_from up to ast_extr[args].
\* srcExists: os.path.isfile(filepath)
JobStart(i) ==
    /\ t_pc = "sched"
    /\ MayStart(i)
    /\ \E srcExists \in BOOLEAN :
         LET cmd      == cc_db[i]
             keyError == cmd.directory = MISSING \/ cmd.file = MISSING
             fatal    == IF import_only(t_args)
                         THEN keyError \/ ~isfile(cmd.file, artifacts)
                         ELSE keyError \/ ~srcExists
             d        == die_in_job(i, 1)
         IN  /\ (import_only(t_args) \/ keyError) => srcExists
             /\ job' = IF fatal THEN d.job
                       ELSE [job EXCEPT ![i] = IF import_only(t_args) THEN "importing"
                                                                     ELSE "extracting"]
             /\ t_pc' = IF fatal THEN d.t_pc ELSE t_pc
             /\ t_exit' = IF fatal THEN d.t_exit ELSE t_exit
             /\ invoked' = IF fatal THEN invoked
                           ELSE IF import_only(t_args)
                                THEN [invoked EXCEPT !.import = @ \cup {i}]
                                ELSE [invoked EXCEPT !.extract = @ \cup {i}]
    /\ UNCHANGED << t_args, cc_db, objs, gate, submitted, artifacts,
                    import_failed, buildVars, locVars >>

\* the extraction tool returns: ProcessExecutionError is die(..., pee.retcode),
\* then the two asserts that <file>.cbor exists, then the conversion tool starts
ExtractDone(i) ==
    /\ t_pc = "sched"
    /\ job[i] = "extracting"
    /\ \E ok, produced \in BOOLEAN, code \in FailCodes :
         LET artifacts1 == IF produced THEN artifacts \cup {cc_db[i].file} ELSE artifacts
             fatal      == ~ok \/ ~isfile(cc_db[i].file, artifacts1)
             d          == die_in_job(i, IF ~ok THEN code ELSE 1)
         IN  /\ ~ok => ~produced
             /\ artifacts' = artifacts1
             /\ job' = IF fatal THEN d.job ELSE [job EXCEPT ![i] = "importing"]
             /\ t_pc' = IF fatal THEN d.t_pc ELSE t_pc
             /\ t_exit' = IF fatal THEN d.t_exit ELSE t_exit
             /\ invoked' = IF fatal THEN invoked ELSE [invoked EXCEPT !.import = @ \cup {i}]
    /\ UNCHANGED << t_args, cc_db, objs, gate, submitted,
                    import_failed, buildVars, locVars >>

\* invoke_quietly with the exit status captured and never looked at
invoke_quietly_Unvalidated(ok, retcode) ==
    [fatal |-> FALSE, ecode |-> retcode]

\* invoke_quietly(cmd, *arguments) for a tool that exits with status 0 (ok) or
\* with retcode: _invoke runs cmd[arguments].run() with plumbum's default
\* retcode=0, so a non-zero exit is ProcessExecutionError and die(msg, retcode)
invoke_quietly(ok, retcode) ==
    [fatal |-> ~ok, ecode |-> retcode]

\* the conversion tool returns to transpile_single
ImportDone(i) ==
    /\ t_pc = "sched"
    /\ job[i] = "importing"
    /\ \E ok \in BOOLEAN, code \in FailCodes :
         LET r == invoke_quietly(ok, code)
             d == die_in_job(i, r.ecode)
         IN  /\ job' = IF r.fatal THEN d.job ELSE [job EXCEPT ![i] = "done"]
             /\ t_pc' = IF r.fatal THEN d.t_pc ELSE t_pc
             /\ t_exit' = IF r.fatal THEN d.t_exit ELSE t_exit
             /\ import_failed' = IF ok THEN import_failed ELSE import_failed \cup {i}
    /\ UNCHANGED << t_args, cc_db, objs, gate, submitted, invoked, artifacts,
                    buildVars, locVars >>

\* an executor whose `with` block ends as soon as everything is submitted
transpile_files_returns_NoWait ==
    IF sequential THEN Finished = Entries ELSE submitted = Len(cc_db)

\* when transpile_files returns: the for loop has ended, or everything was
\* submitted and the `with` block of the executor has left through
\* shutdown(wait=True), which joins the workers
transpile_files_returns ==
    /\ sequential \/ submitted = Len(cc_db)
    /\ Finished = Entries

\* transpile_files returns (the for loop ended, or the executor's shutdown has
\* waited for every work item) and main logs success
Finish ==
    /\ t_pc = "sched"
    /\ transpile_files_returns
    /\ t_pc' = "exited"
    /\ t_exit' = 0
    /\ UNCHANGED << t_args, cc_db, objs, gate, submitted, job, invoked, artifacts,
                    import_failed, buildVars, locVars >>

TranspileNext ==
    \/ LoadDatabase
    \/ FilterDatabase
    \/ EnsureCodeCompiledWithClang
    \/ GetSystemIncludeDirs
    \/ Submit
    \/ \E i \in Entries : JobStart(i)
    \/ \E i \in Entries : ExtractDone(i)
    \/ \E i \in Entries : ImportDone(i)
    \/ Finish

\* ==================================================== try_locate_elf_object
\* Strings are sequences of characters here, so that the regular expression,
\* os.path.join and str.replace are computed character by character.

\* longest argument list of an entry
MaxArgs == 4

\* the characters \s matches
Whitespace == {" ", "\t", "\n"}

\* the character [^\0] excludes
NUL == "nul"

\* the words compiler invocations are made of: cc, -o, a.c, x.o
ArgTokens ==
    { << "c", "c" >>, << "-", "o" >>, << "a", ".", "c" >>, << "x", ".", "o" >> }

ArgLists == UNION {[1..k -> ArgTokens] : k \in 0..MaxArgs}

\* values of the directory field: /d, /.cfg
LocDirs == { << "/", "d" >>, << "/", ".", "c", "f", "g" >> }

\* values of the file field: a.c
LocFiles == { << "a", ".", "c" >> }

\* files that may exist: /d/x.o, /d/a.o, /.cfg/a.o
DiskPaths ==
    { << "/", "d", "/", "x", ".", "o" >>, << "/", "d", "/", "a", ".", "o" >>,
      << "/", ".", "c", "f", "g", "/", "a", ".", "o" >> }

Minimum(S) == CHOOSE x \in S : \A y \in S : x <= y

Maximum(S) == CHOOSE x \in S : \A y \in S : x >= y

\* " ".join(list)
RECURSIVE join(_)
join(list) ==
    IF list = << >> THEN << >>
    ELSE IF Len(list) = 1 THEN list[1]
    ELSE list[1] \o << " " >> \o join(Tail(list))

\* os.path.join(a, b) on POSIX
os_path_join(a, b) ==
    IF Len(b) > 0 /\ b[1] = "/" THEN b
    ELSE IF a = << >> \/ a[Len(a)] = "/" THEN a \o b
    ELSE a \o << "/" >> \o b

\* str.replace(old, new): every non-overlapping occurrence, left to right
RECURSIVE replace(_, _, _)
replace(str, old, new) ==
    IF Len(str) < Len(old) THEN str
    ELSE IF SubSeq(str, 1, Len(old)) = old
         THEN new \o replace(SubSeq(str, Len(old) + 1, Len(str)), old, new)
         ELSE << str[1] >> \o replace(Tail(str), old, new)

\* re.search(r"\s-o\s+([^\0]+\.o)\s", command): the leftmost match; \s+ and
\* the group are greedy, so the group starts after the longest run of white
\* space and ends at the last ".o" that white space follows
re_search(command) ==
    LET len == Len(command)
        Starts == {i \in 1..len : /\ i + 3 <= len
                                  /\ command[i] \in Whitespace
                                  /\ command[i + 1] = "-" /\ command[i + 2] = "o"
                                  /\ command[i + 3] \in Whitespace}
        GroupStarts(i) == {g \in (i + 4)..len :
                             \A k \in (i + 3)..(g - 1) : command[k] \in Whitespace}
        GroupEnds(g) == {e \in (g + 2)..(len - 1) :
                           /\ command[e - 1] = "." /\ command[e] = "o"
                           /\ command[e + 1] \in Whitespace
                           /\ \A k \in g..e : command[k] # NUL}
        Hits(i) == {g \in GroupStarts(i) : GroupEnds(g) # {}}
        Matching == {i \in Starts : Hits(i) # {}}
    IN  IF Matching = {} THEN [found |-> FALSE, group |-> << >>]
        ELSE LET i == Minimum(Matching)
                 g == Maximum(Hits(i))
                 e == Maximum(GroupEnds(g))
             IN  [found |-> TRUE, group |-> SubSeq(command, g, e)]

\* a compilation entry as a JSON object: the keys it has and their values
LocatorEntries ==
    { [keys |-> inv \cup dk \cup fk,
       arguments |-> IF inv = {"arguments"} THEN a ELSE << >>,
       command   |-> IF inv = {"command"} THEN join(a) \o t ELSE << >>,
       directory |-> IF dk = {} THEN << >> ELSE d,
       file      |-> IF fk = {} THEN << >> ELSE f] :
        inv \in {{"arguments"}, {"command"}, {}}, a \in ArgLists, t \in {<< >>, << "\n" >>},
        dk \in {{"directory"}, {}}, d \in LocDirs, fk \in {{"file"}, {}}, f \in LocFiles }

NoReturn == [state |-> "pending", outpath |-> << >>, value |-> << >>]

\* try_locate_elf_object(cmd) with disk the set of existing files.  state is
\* "died" for die(), "crashed" for the KeyError of cmd['file'], "found" when
\* the path is returned and "none" when None is returned.
try_locate_elf_object(cmd, disk) ==
    LET command == IF "arguments" \in cmd.keys THEN join(cmd.arguments) ELSE cmd.command
        m       == re_search(command)
        outpath == IF m.found THEN os_path_join(cmd.directory, m.group)
                   ELSE replace(os_path_join(cmd.directory, cmd.file),
                                << ".", "c" >>, << ".", "o" >>)
    IN  IF cmd.keys \cap {"arguments", "command"} = {}
            THEN [state |-> "died", outpath |-> << >>, value |-> << >>]
        ELSE IF "directory" \notin cmd.keys
            THEN [state |-> "died", outpath |-> << >>, value |-> << >>]
        ELSE IF ~m.found /\ "file" \notin cmd.keys
            THEN [state |-> "crashed", outpath |-> << >>, value |-> << >>]
        ELSE IF outpath \in disk
            THEN [state |-> "found", outpath |-> outpath, value |-> outpath]
        ELSE [state |-> "none", outpath |-> outpath, value |-> << >>]

LocatorInit ==
    /\ loc_pc = "call"
    /\ loc_cmd \in LocatorEntries
    /\ loc_disk \in SUBSET DiskPaths
    /\ loc_ret = NoReturn

TryLocateElfObject ==
    /\ loc_pc = "call"
    /\ loc_ret' = try_locate_elf_object(loc_cmd, loc_disk)
    /\ loc_pc' = "returned"
    /\ UNCHANGED << loc_cmd, loc_disk, buildVars, transVars >>

LocatorNext == TryLocateElfObject

\* ----------------------------------------------------------- specifications
\* the transpile variables while only build_ast_extractor.py runs
TranspileIdle ==
    /\ t_pc = "exited"
    /\ t_args = [import_only |-> FALSE, filter |-> "", jobs |-> 1]
    /\ cc_db = << >>
    /\ objs = << >>
    /\ gate = [state |-> "pending", located |-> {}, listed |-> {}]
    /\ submitted = 0
    /\ job = << >>
    /\ invoked = [extract |-> {}, import |-> {}]
    /\ artifacts = {}
    /\ import_failed = {}
    /\ t_exit = 0

\* the build variables while only transpile.py runs: a prepared toolchain
BuildIdle ==
    /\ platform = "ubuntu"
    /\ deps_dir = TRUE /\ llvm_bld = TRUE
    /\ files = {"llvm", "cfe", "extra", "tinycbor", "bear"}
    /\ src_dirs = {"llvm.src", "clang", "extra"}
    /\ extractor_link = TRUE
    /\ cmakelists = [exists |-> TRUE, lines |-> PristineCMakeLists \o CMAKELISTS_COMMANDS]
    /\ cbor_src = "full" /\ cbor_prefix = "full" /\ cbor_ccdb = TRUE
    /\ bear_src = "full" /\ bear_prefix = "full"
    /\ ninja_file = GeneratedNinja("Release")
    /\ pc = "idle" /\ idx = 1
    /\ args = [clean_all |-> FALSE, debug |-> FALSE]
    /\ exitCode = 0 /\ runs = MaxRuns
    /\ prev = [ok |-> FALSE, debug |-> FALSE]
    /\ n = ZeroCounts
    /\ toolFailed = FALSE
    /\ verified = {"llvm", "cfe", "extra"}
    /\ gpg = NoGpg

\* the locator variables while no call of try_locate_elf_object is followed
LocatorIdle ==
    /\ loc_pc = "returned"
    /\ loc_cmd = [keys |-> {}, arguments |-> << >>, command |-> << >>,
                  directory |-> << >>, file |-> << >>]
    /\ loc_disk = {}
    /\ loc_ret = NoReturn

InitBuild == BuildInit /\ TranspileIdle /\ LocatorIdle

InitTranspile == TranspileInit /\ BuildIdle /\ LocatorIdle

InitLocator == LocatorInit /\ BuildIdle /\ TranspileIdle

SpecBuild == InitBuild /\ [][BuildNext]_vars

SpecTranspile == InitTranspile /\ [][TranspileNext]_vars

SpecLocator == InitLocator /\ [][LocatorNext]_vars

\* ================================================================== claims
\* C1: the transpile run exits with status 0 only if the extraction and the
\* import of every entry succeeded, and exits non-zero when a job hit a fatal
\* condition, for every worker count.
C1_ExitZeroOnlyIfAllSucceeded ==
    t_pc = "exited" =>
        /\ (t_exit = 0 => \A i \in Entries : job[i] = "done")
        /\ ((\E i \in Entries : job[i] = "failed") => t_exit # 0)

\* C2: once one job has hit an unrecoverable error, no extraction or import
\* invocation is started for any entry.
C2_NoInvocationAfterFatal ==
    [][(\E i \in Entries : job[i] = "failed") => invoked' = invoked]_vars

\* C3: a toolchain archive is unpacked only after check_sig has verified the
\* archive file that is unpacked.
C3_UnpackOnlyVerified ==
    [][\A k \in 1..Len(LLVM_ARCHIVE_DIRS) :
          (LLVM_ARCHIVE_DIRS[k] \notin src_dirs /\ LLVM_ARCHIVE_DIRS[k] \in src_dirs')
              => LLVM_ARCHIVE_FILES[k] \in verified]_vars

\* C4: after gpg --verify has run, the run continues exactly when gpg exited
\* with code 0 and its output held the expected signer text; otherwise the run
\* ends with a non-zero status.
C4_VerifierNeedsExitCodeAndSigner ==
    [][(pc = "fetch" /\ gpg'.ran) =>
          LET good == gpg'.retcode = 0 /\ gpg'.expected IN
            /\ good <=> pc' # "idle"
            /\ ~good => (pc' = "idle" /\ exitCode' # 0)]_vars

\* C4 witness: gpg exited 0 without the expected signer text, and the run ended
C4_Witness ==
    gpg.ran /\ gpg.retcode = 0 /\ ~gpg.expected /\ pc = "idle" /\ exitCode # 0

\* C5: in a run that follows a successful run with the same requested flavor,
\* nothing is downloaded, nothing is unpacked, no patch is inserted and cmake
\* is not invoked.
C5_SecondRunIdempotent ==
    (runs >= 2 /\ prev.ok /\ prev.debug = args.debug) =>
        n.dl = 0 /\ n.sig = 0 /\ n.tar = 0 /\ n.patch = 0 /\ n.cmake = 0

\* C5 witness: such a second run went through to the end of the build
C5_Witness ==
    /\ runs >= 2 /\ prev.ok /\ prev.debug = args.debug /\ ~args.clean_all
    /\ pc = "idle" /\ exitCode = 0 /\ n.ninja = 1

\* C6: a marker directory (unpacked source directory, tinycbor prefix, Bear
\* prefix) exists at its canonical path only when it is fully populated.
C6_MarkersFullyPopulated ==
    /\ cbor_src # "partial" /\ cbor_prefix # "partial"
    /\ bear_src # "partial" /\ bear_prefix # "partial"

\* number of copies of the CMAKELISTS_COMMANDS block in a file
BlockCount(lines) ==
    Cardinality({k \in 1..Len(lines) :
        /\ k + Len(CMAKELISTS_COMMANDS) - 1 <= Len(lines)
        /\ SubSeq(lines, k, k + Len(CMAKELISTS_COMMANDS) - 1) = CMAKELISTS_COMMANDS})

HasIndicator(lines) == \E k \in 1..Len(lines) : lines[k] \in indicator

\* C7: the build-description file never holds the appended block twice, and
\* an integration step that finds the indicator leaves the file unchanged.
C7_PatchAtMostOnce ==
    /\ [](BlockCount(cmakelists.lines) <= 1)
    /\ [][(pc = "integrate" /\ HasIndicator(cmakelists.lines))
              => cmakelists' = cmakelists]_vars

\* C7 witness: a later run found the block in place and went on without patching
C7_Witness ==
    /\ runs >= 2 /\ pc = "tinycbor" /\ n.patch = 0
    /\ BlockCount(cmakelists.lines) = 1

\* the flavor build.ninja records, "" when it records none
Recorded == IF ninja_file.exists /\ get_ninja_build_type(ninja_file).kind = "ok"
            THEN get_ninja_build_type(ninja_file).type ELSE ""

\* build.ninja is absent or well formed
Configurable == llvm_bld /\ (ninja_file.exists => Recorded # "")

\* C8: with build.ninja absent or well formed, the configure step invokes
\* cmake (once) exactly when the file is absent or records another flavor
\* than the requested one; unless cmake fails the run goes on to the build
\* driver, which is invoked once.
C8_ConfigureIffNeeded ==
    /\ [][(pc = "configure" /\ Configurable) =>
            LET needed == ~ninja_file.exists \/ Recorded # build_type IN
              /\ n.cmake = 0
              /\ n'.cmake = (IF needed THEN 1 ELSE 0)
              /\ ~toolFailed' => pc' = "build"]_vars
    /\ [][pc = "build" => (n.ninja = 0 /\ n'.ninja = 1)]_vars

\* C8 witness: Release was recorded, Debug requested: one cmake, one ninja
C8_Witness ==
    /\ prev.ok /\ ~prev.debug /\ args.debug
    /\ pc = "idle" /\ exitCode = 0 /\ n.cmake = 1 /\ n.ninja = 1

\* C9: a run given clean_all, in which no external tool fails, carries the
\* preparation through to the end of the build and exits 0.
C9_CleanAllRunCompletes ==
    (runs > 0 /\ pc = "idle" /\ args.clean_all /\ ~toolFailed) =>
        (exitCode = 0 /\ n.ninja = 1)

\* entries compiling a C file for which an object file was found
LocatedObjects == {i \in Entries : objs[i] # "none"}

\* the gate got as far as inspecting the located objects
GateInspected ==
    /\ gate.state # "pending"
    /\ \A i \in Entries : cc_db[i].file # MISSING
    /\ \E i \in Entries : EndsWithC(cc_db[i].file)
    /\ \A i \in Entries : EndsWithC(cc_db[i].file) => (cc_db[i].cmd /\ cc_db[i].directory # MISSING)
    /\ \A i \in LocatedObjects : objs[i] # "unreadable"

\* C10: when a located object lacks the compiler marker the gate ends the run
\* with a non-zero status and its diagnostic lists every offending object;
\* when every located object carries the marker the gate passes.
C10_GateFailsOnAnyNonClang ==
    GateInspected =>
        LET offending == {i \in LocatedObjects : objs[i] # "clang"} IN
          IF offending # {}
          THEN t_pc = "exited" /\ t_exit # 0 /\ gate.state = "failed"
               /\ offending \subseteq gate.listed
          ELSE gate.state = "passed"

\* C10 witness: two located objects, one of them without the marker
C10_Witness ==
    /\ GateInspected /\ t_pc = "exited" /\ gate.state = "failed"
    /\ \E i, j \in LocatedObjects : objs[i] = "other" /\ objs[j] = "clang"

\* the entries of db whose file field contains the filter, in database order
MatchingEntries(db, filter) == SelectSeq(db, LAMBDA c : Contains(filter, c.file))

\* C11: when the database is loaded and every entry has a file field, the
\* filter step hands on to the gate, with the working set being exactly the
\* entries whose file contains the filter substring, in database order (the
\* whole database when the filter is empty).
C11_FilterRestrictsWorkingSet ==
    [][(t_pc = "filter" /\ \A i \in Entries : cc_db[i].file # MISSING) =>
         /\ t_pc' = "gate"
         /\ cc_db' = IF t_args.filter = "" THEN cc_db
                     ELSE MatchingEntries(cc_db, t_args.filter)]_vars

\* str.split(): the words of a string
RECURSIVE Words(_)
Words(str) ==
    IF str = << >> THEN << >>
    ELSE IF str[1] \in Whitespace THEN Words(Tail(str))
    ELSE LET spaces == {k \in 1..Len(str) : str[k] \in Whitespace}
             stop   == IF spaces = {} THEN Len(str) + 1 ELSE Minimum(spaces)
         IN  << SubSeq(str, 1, stop - 1) >> \o Words(SubSeq(str, stop, Len(str)))

\* the words of the invocation of an entry that has one
Invocation(cmd) ==
    IF "arguments" \in cmd.keys THEN cmd.arguments ELSE Words(cmd.command)

HasInvocation(cmd) == cmd.keys \cap {"arguments", "command"} # {}

EndsWith(str, suffix) ==
    /\ Len(str) >= Len(suffix)
    /\ SubSeq(str, Len(str) - Len(suffix) + 1, Len(str)) = suffix

\* positions of the -o words of an invocation
OutputFlags(w) == {i \in 1..Len(w) : w[i] = << "-", "o" >>}

\* C12: when the invocation of an entry with directory and file (arguments
\* list or command string) has a single -o word, anywhere after the compiler, followed by a path of
\* at least one character before its .o suffix, and <directory>/<path> is an
\* existing file, the locator returns <directory>/<path>.
C12_OutputFlagLocatesObject ==
    ( /\ loc_pc = "returned" /\ HasInvocation(loc_cmd)
      /\ {"directory", "file"} \subseteq loc_cmd.keys ) =>
        LET w == Invocation(loc_cmd) IN
          \A i \in OutputFlags(w) :
            ( /\ OutputFlags(w) = {i} /\ 1 < i /\ i < Len(w)
              /\ Len(w[i + 1]) > 2 /\ EndsWith(w[i + 1], << ".", "o" >>)
              /\ (loc_cmd.directory \o << "/" >> \o w[i + 1]) \in loc_disk )
            => /\ loc_ret.state = "found"
               /\ loc_ret.value = loc_cmd.directory \o << "/" >> \o w[i + 1]

\* C13: when the invocation of an entry has no -o word and its file ends in
\* .c, the candidate output path is <directory>/<file> with the final .c
\* replaced by .o and every other character unchanged.
C13_FallbackReplacesTrailingSuffix ==
    ( /\ loc_pc = "returned" /\ HasInvocation(loc_cmd)
      /\ {"directory", "file"} \subseteq loc_cmd.keys
      /\ OutputFlags(Invocation(loc_cmd)) = {}
      /\ EndsWith(loc_cmd.file, << ".", "c" >>) ) =>
        LET inpath == loc_cmd.directory \o << "/" >> \o loc_cmd.file IN
          loc_ret.outpath = SubSeq(inpath, 1, Len(inpath) - 2) \o << ".", "o" >>

\* the entries the gate looks at: those whose file ends in .c
CEntries == {i \in Entries : cc_db[i].file # MISSING /\ EndsWithC(cc_db[i].file)}

\* C14: an entry for which no compiled object was located does not end the
\* run and is not inspected: it is neither among the inspected nor among the
\* reported objects, a failing gate has inspected an object without the clang
\* marker, and the gate passes when every located object carries the marker,
\* however many entries have no object.
C14_UnlocatedObjectsAreNotFatal ==
    GateInspected =>
        /\ \A i \in Entries : objs[i] = "none" => i \notin (gate.located \cup gate.listed)
        /\ gate.state = "failed" => \E i \in gate.located : objs[i] = "other"
        /\ (\A i \in CEntries : objs[i] \in {"none", "clang"}) => gate.state = "passed"

\* C14 witness: the gate has passed a database in which one .c entry has no
\* object and another has an object with the marker
C14_Witness ==
    /\ t_pc = "incl" /\ gate.state = "passed"
    /\ \E i, j \in CEntries : objs[i] = "none" /\ objs[j] = "clang"

\* the locator's side of C14, under SpecLocator: for an entry with an
\* invocation, a directory and a file the call returns, and it returns None
\* exactly when its candidate path is not an existing file
LocatorNotFoundIsNotFatal ==
    ( /\ loc_pc = "returned" /\ HasInvocation(loc_cmd)
      /\ {"directory", "file"} \subseteq loc_cmd.keys ) =>
        /\ loc_ret.state \in {"found", "none"}
        /\ loc_ret.state = "none" <=> loc_ret.outpath \notin loc_disk

\* the entries missing directory, file, or both
MalformedEntries ==
    {i \in Entries : cc_db[i].directory = MISSING \/ cc_db[i].file = MISSING}

\* C15: for every entry missing directory or file, no external process is
\* spawned for it (no object inspection, no extraction, no import), and once
\* the entry has been processed the run has ended with a non-zero status; a
\* run over a database with such an entry never exits with status 0.
C15_MalformedEntryIsFatal ==
    \A i \in MalformedEntries :
        /\ i \notin (gate.located \cup invoked.extract \cup invoked.import)
        /\ job[i] = "failed" => (t_pc = "exited" /\ t_exit # 0)
        /\ t_pc = "exited" => t_exit # 0

\* C16 as stated: a non-zero exit of the conversion tool is not fatal; the
\* run goes on scheduling after it.
C16_ImportFailureIsNotFatal ==
    [][import_failed' # import_failed => t_pc' = "sched"]_vars

\* C16, amended: the invoker validates the exit status.  A non-zero exit of
\* the conversion tool ends the job of that entry through the fatal-error
\* path; with one job the run then ends with a non-zero status and no further
\* tool is invoked; in worker-pool mode the error stays in the worker and the
\* run goes on.
C16_ImportFailureIsFatalToTheJob ==
    [][ /\ import_failed' # import_failed =>
            /\ \A i \in import_failed' \ import_failed : job'[i] = "failed"
            /\ sequential => (t_pc' = "exited" /\ t_exit' # 0)
            /\ ~sequential => (t_pc' = "sched" /\ t_exit' = t_exit)
        /\ t_pc = "exited" => invoked' = invoked ]_vars

\* C16 witness: with one job, the import of the first of two entries returned
\* non-zero; the run has ended with a non-zero status, the second entry
\* untouched
C16_Witness ==
    /\ sequential /\ Len(cc_db) = 2
    /\ import_failed = {1} /\ job[1] = "failed" /\ job[2] = "pending"
    /\ t_pc = "exited" /\ t_exit # 0

\* C17: the conversion tool is started for an entry only in a step after
\* which the artifact of that entry exists, in normal and in import-only
\* mode; and when an entry's extraction ends without its artifact, the job
\* fails, no import is started for the entry, and with one job the run ends
\* with a non-zero status.
C17_ImportOnlyWithArtifact ==
    [][\A i \in Entries :
         /\ (i \in invoked'.import /\ i \notin invoked.import) => cc_db[i].file \in artifacts'
         /\ (job[i] = "extracting" /\ job'[i] # "extracting" /\ cc_db[i].file \notin artifacts')
                => /\ job'[i] = "failed" /\ i \notin invoked'.import
                   /\ sequential => (t_pc' = "exited" /\ t_exit' # 0)
         /\ (job[i] = "failed" /\ i \notin invoked.import) => i \notin invoked'.import]_vars

\* C17 witness: the conversion tool was started for the first entry, whose
\* artifact exists, and the second entry's extraction ended without artifact
C17_Witness ==
    /\ Len(cc_db) = 2
    /\ 1 \in invoked.import /\ cc_db[1].file \in artifacts
    /\ 2 \in invoked.extract /\ 2 \notin invoked.import
    /\ job[2] = "failed" /\ cc_db[2].file \notin artifacts

\* entries for which a tool invocation was started in this run
Invocations == invoked.extract \cup invoked.import

\* C18: an extraction or import has been started only if the gate has passed
\* for the whole working set, which then has an entry compiling a .c file and
\* no located object without the clang marker; and once the gate has ended
\* any other way, the run is over with no extraction and no import at all.
C18_NoInvocationBeforeGatePasses ==
    /\ Invocations # {} =>
          /\ gate.state = "passed"
          /\ CEntries # {}
          /\ \A i \in CEntries : objs[i] \in {"none", "clang"}
    /\ (gate.state # "pending" /\ (CEntries = {} \/ \E i \in CEntries : objs[i] = "other")) =>
          /\ Invocations = {}
          /\ t_pc = "exited" /\ t_exit # 0
    /\ t_pc \in {"load", "filter", "gate", "incl"} => Invocations = {}

\* C18 witness: the gate inspected an object, passed, and an extraction has
\* been started
C18_Witness ==
    /\ gate.state = "passed" /\ gate.located # {}
    /\ invoked.extract # {}

\* C19: in both modes the import of an entry starts in the step in which its
\* extraction returns (or, in import-only mode, with no extraction at all),
\* and no extraction of an entry starts once its import has; with one job an
\* entry starts only when every entry before it is done, so that one entry
\* at most is being processed.
C19_ExtractThenImportInOrder ==
    [][\A i \in Entries :
         /\ (i \in invoked'.import /\ i \notin invoked.import) =>
                IF t_args.import_only THEN i \notin invoked'.extract
                ELSE job[i] = "extracting" /\ i \in invoked.extract
         /\ (i \in invoked'.extract /\ i \notin invoked.extract) => i \notin invoked.import
         /\ (sequential /\ job[i] = "pending" /\ job'[i] # "pending") =>
                /\ \A j \in 1..(i - 1) : job[j] = "done"
                /\ \A j \in Entries : j > i => job'[j] = "pending"
                /\ Running = {}]_vars

\* C19 witness: with one job, the first entry was extracted and imported and
\* is done, and the second, extracted, is being imported
C19_Witness ==
    /\ sequential /\ ~t_args.import_only /\ Len(cc_db) = 2
    /\ job[1] = "done" /\ job[2] = "importing"
    /\ invoked.extract = {1, 2} /\ invoked.import = {1, 2}

\* C20: in worker-pool mode with N workers at most N entries are between the
\* start of their first tool and the end of their job; every entry is handed
\* to the executor once, in database order, leaves the queue once and never
\* comes back to it, copies of an entry each having their own job; and when
\* the scheduler has returned every entry has had its job.
C20_BoundedPoolDispatchesOnce ==
    [][~sequential =>
         /\ Cardinality(Running') <= t_args.jobs
         /\ \A i \in Entries :
              /\ (job'[i] = "queued" /\ job[i] # "queued") =>
                     job[i] = "pending" /\ i = submitted + 1 /\ submitted' = i
              /\ (job[i] \notin {"pending", "queued"}) => job'[i] \notin {"pending", "queued"}
              /\ job[i] = "queued" => job'[i] \in {"queued", "extracting", "importing", "failed"}
         /\ (t_pc = "sched" /\ t_pc' = "exited") =>
                (submitted = Len(cc_db) /\ \A i \in Entries : job[i] \in {"done", "failed"})]_vars

\* C20 witness: three copies of one entry and two workers: two jobs running,
\* the third entry waiting in the queue
C20_Witness ==
    /\ t_args.jobs = 2 /\ Len(cc_db) = 3
    /\ cc_db[1] = cc_db[2] /\ cc_db[2] = cc_db[3]
    /\ Cardinality(Running) = 2 /\ job[3] = "queued"

\* C21: in import-only mode no extraction is ever started and no job is ever
\* extracting; a job that starts goes straight to the conversion tool, with
\* the artifact of its entry already there, or stops without invoking it when
\* the artifact is missing; and no artifact is created.
C21_ImportOnlyNeverExtracts ==
    [][t_args.import_only =>
         /\ invoked'.extract = {}
         /\ artifacts' = artifacts
         /\ \A i \in Entries :
              /\ job'[i] # "extracting"
              /\ (job[i] \in {"pending", "queued"} /\ job'[i] \notin {"pending", "queued"}) =>
                     IF cc_db[i].file \in artifacts /\ cc_db[i].directory # MISSING
                     THEN job'[i] = "importing" /\ i \in invoked'.import
                     ELSE job'[i] = "failed" /\ i \notin invoked'.import]_vars

\* C21 witness: in import-only mode the first entry's artifact existed and
\* its import has run, the second entry's artifact was missing and its job
\* stopped without an import
C21_Witness ==
    /\ t_args.import_only /\ Len(cc_db) = 2
    /\ job[1] = "done" /\ 1 \in invoked.import /\ cc_db[1].file \in artifacts
    /\ job[2] = "failed" /\ 2 \notin invoked.import /\ cc_db[2].file # MISSING
    /\ cc_db[2].directory # MISSING /\ cc_db[2].file \notin artifacts

\* build.ninja exists, and its first line is not the generator's signature or
\* none of its lines is a `# Configuration: <word>` line
MalformedNinja(file) ==
    /\ file.exists
    /\ \/ Len(file.lines) = 0
       \/ file.lines[1] # signature
       \/ \A k \in 1..Len(file.lines) :
            ~(Len(file.lines[k]) >= 3 /\ file.lines[k][1] = "#"
              /\ file.lines[k][2] = "Configuration:")

\* C22: while build.ninja is malformed, the current run has invoked neither
\* cmake nor ninja; the configure step on a malformed file ends the run with
\* a non-zero status, leaving the file as it is; and every run that ends
\* with the file malformed has ended with a non-zero status.
C22_MalformedNinjaIsFatal ==
    [][ /\ MalformedNinja(ninja_file') => (n'.cmake = 0 /\ n'.ninja = 0)
        /\ (pc = "configure" /\ MalformedNinja(ninja_file)) =>
              /\ pc' = "idle" /\ exitCode' # 0
              /\ n' = n /\ ninja_file' = ninja_file
        /\ (pc # "idle" /\ pc' = "idle" /\ MalformedNinja(ninja_file')) => exitCode' # 0 ]_vars

\* C22 witness: a run got as far as the configure step with every earlier step
\* done and no tool failing, found a build.ninja with the signature but no
\* configuration line, and ended with status 1 without cmake or ninja
C22_Witness ==
    /\ pc = "idle" /\ runs >= 1 /\ exitCode = 1 /\ ~toolFailed
    /\ llvm_bld /\ extractor_link /\ cbor_prefix = "full"
    /\ ninja_file.exists /\ Len(ninja_file.lines) > 0
    /\ ninja_file.lines[1] = signature /\ MalformedNinja(ninja_file)
    /\ n.patch = 1 /\ n.cmake = 0 /\ n.ninja = 0

\* the entries handed to the executor whose job has not ended
Unfinished == {i \in Entries : job[i] \in {"queued", "extracting", "importing"}}

\* C23: in worker-pool mode, once the run has ended no job is queued or
\* running; and the step in which the scheduler returns and success is
\* reported is taken only with every entry submitted and every job ended
\* (done, or stopped on an error), and it changes no job.
C23_ReturnsAfterAllJobs ==
    [][~sequential =>
         /\ t_pc' = "exited" => Unfinished' = {}
         /\ (t_pc = "sched" /\ t_pc' = "exited") =>
               /\ submitted = Len(cc_db)
               /\ \A i \in Entries : job[i] \in {"done", "failed"}
               /\ job' = job /\ invoked' = invoked
               /\ t_exit' = 0]_vars

\* C23 witness: a worker-pool run over three entries has reported its
\* outcome, every job having ended, one of them on an error
C23_Witness ==
    /\ ~sequential /\ t_pc = "exited" /\ gate.state = "passed"
    /\ Len(cc_db) = 3 /\ submitted = 3
    /\ \E i, j \in Entries : job[i] = "done" /\ job[j] = "failed"
    /\ \A i \in Entries : job[i] \in {"done", "failed"}

=============================================================================
